---- MODULE Spec2Model ----
(***************************************************************************)
(* A model of pylisp's node layer (src/pylisp/nodes.py): the tree          *)
(* classifier Node.parse, the tree-walking evaluator (every node's         *)
(* __call__) over dict / ChainMap environments, and the opcode emission    *)
(* (every node's __iter__).                                                *)
(*                                                                         *)
(* Tokens are sequences of one-character strings, so that the classifier's *)
(* regular expression, startswith/endswith tests and slicing are computed. *)
(* A token tree is a record: a leaf [k |-> "leaf", tok |-> chars] or a     *)
(* list [k |-> "list", kids |-> <<trees>>].                                *)
(***************************************************************************)
EXTENDS Integers, Sequences, FiniteSets, TLC

VARIABLES
    tree,      \* classifier: the token tree handed to Node.parse (a mutable list)
    asts,      \* classifier: what each call of Node.parse returned or raised, in order
    scoping,   \* module flag __scoping__: "LEXICAL" or "DYNAMIC"
    heap,      \* evaluator: the dict objects (frames), by identity 1..Len(heap)
    ctl,       \* evaluator: what the interpreter does next (call / ret / raise / done / off)
    kont,      \* evaluator: the __call__ activations in progress, innermost first
    depth,     \* module global `depth` of the debug wrapper
    nstmt,     \* how many top-level statements have been handed to the evaluator
    vm         \* stack executor: [on, pc, stack, frame, code, err]

vars == <<tree, asts, scoping, heap, ctl, kont, depth, nstmt, vm>>

-----------------------------------------------------------------------------
(* Bounds of the model.                                                    *)

MaxParses == 2      \* how often the classifier is run on one token tree
MaxArity == 3       \* operand count of the generated operator forms
MaxNum == 2         \* numeric literals of the generated programs are 0..MaxNum

-----------------------------------------------------------------------------
(* Tokens.                                                                 *)

Digits == {"0", "1", "2", "3", "4", "5", "6", "7", "8", "9"}

DigitVal(c) ==
    CASE c = "0" -> 0 [] c = "1" -> 1 [] c = "2" -> 2 [] c = "3" -> 3
      [] c = "4" -> 4 [] c = "5" -> 5 [] c = "6" -> 6 [] c = "7" -> 7
      [] c = "8" -> 8 [] c = "9" -> 9

DigitChar(n) ==
    CASE n = 0 -> "0" [] n = 1 -> "1" [] n = 2 -> "2" [] n = 3 -> "3"
      [] n = 4 -> "4" [] n = 5 -> "5" [] n = 6 -> "6" [] n = 7 -> "7"
      [] n = 8 -> "8" [] n = 9 -> "9"

Leaf(chars) == [k |-> "leaf", tok |-> chars]
Lst(kids) == [k |-> "list", kids |-> kids]

IsLeaf(t) == t.k = "leaf"
IsList(t) == t.k = "list"

\* tree[0] == 'word' for a head that may be a str or a list
HeadIs(t, chars) == IsLeaf(t) /\ t.tok = chars

StartsWith(s, c) == Len(s) >= 1 /\ s[1] = c
EndsWith(s, c) == Len(s) >= 1 /\ s[Len(s)] = c

tSet == <<"s", "e", "t">>
tSetg == <<"s", "e", "t", "g">>
tSetc == <<"s", "e", "t", "c">>
tRet == <<"r", "e", "t">>
tLambda == <<"l", "a", "m", "b", "d", "a">>
tNil == <<"n", "i", "l">>
tTrue == <<"t", "r", "u", "e">>
tFalse == <<"f", "a", "l", "s", "e">>
tAnd == <<"a", "n", "d">>
tOr == <<"o", "r">>
tNot == <<"n", "o", "t">>
tXor == <<"x", "o", "r">>
tPrint == <<"p", "r", "i", "n", "t">>
tPrintf == <<"p", "r", "i", "n", "t", "f">>
tPrintfs == <<"p", "r", "i", "n", "t", "f", "s">>
tFormat == <<"f", "o", "r", "m", "a", "t">>
tAssert == <<"a", "s", "s", "e", "r", "t">>
tList == <<"l", "i", "s", "t">>
tCons == <<"c", "o", "n", "s">>
tCar == <<"c", "a", "r">>
tCdr == <<"c", "d", "r">>
tIf == <<"i", "f">>
tWhile == <<"w", "h", "i", "l", "e">>
tParse == <<"p", "a", "r", "s", "e">>
tQuoted == <<"q", "u", "o", "t", "e", "d">>
tEval == <<"e", "v", "a", "l">>
tRead == <<"r", "e", "a", "d">>

-----------------------------------------------------------------------------
(* Raw (unwrapped) Python values: Decimal, str, bool, None, tuple.         *)

Num(n, e) == [t |-> "num", n |-> n, e |-> e]    \* the Decimal n * 10^(-e)
Str(chars) == [t |-> "str", s |-> chars]
Bool(b) == [t |-> "bool", b |-> b]
None == [t |-> "none"]
Tuple(a, b) == [t |-> "tuple", a |-> a, b |-> b]

\* An exception leaving a function, by class name.
Raise(exc) == [k |-> "Raise", exc |-> exc]
IsRaise(r) == "k" \in DOMAIN r /\ r.k = "Raise"

\* A node: its class and its children.
Node(cls, children) == [k |-> cls, children |-> children]

Nil == Node("Nil", <<>>)
True_ == Node("True_", <<>>)
False_ == Node("False_", <<>>)
Atom(value) == Node("Atom", <<value>>)
Var(name) == Node("Var", <<name>>)
Name(name) == Node("Name", <<name>>)

-----------------------------------------------------------------------------
(* Node.parse, leaves.                                                     *)

\* NUM_RE.fullmatch(tree) with NUM_RE = (?:\+|-)?\d*\.?\d*
NumBody(s) == IF StartsWith(s, "+") \/ StartsWith(s, "-") THEN Tail(s) ELSE s

NUM_RE(s) ==
    LET b == NumBody(s)
    IN  /\ \A i \in 1..Len(b) : b[i] \in Digits \cup {"."}
        /\ Cardinality({i \in 1..Len(b) : b[i] = "."}) <= 1

RECURSIVE DigitsValue(_)
DigitsValue(s) ==
    IF s = <<>> THEN 0
    ELSE 10 * DigitsValue(SubSeq(s, 1, Len(s) - 1)) + DigitVal(s[Len(s)])

\* Decimal(tree) for a string NUM_RE accepts: a string without any digit
\* is no number (decimal.InvalidOperation).
Decimal(s) ==
    LET b == NumBody(s)
        ds == SelectSeq(b, LAMBDA c : c \in Digits)
        dot == {i \in 1..Len(b) : b[i] = "."}
        e == IF dot = {} THEN 0 ELSE Len(b) - (CHOOSE i \in dot : TRUE)
        mag == DigitsValue(ds)
    IN  IF ds = <<>> THEN Raise("InvalidOperation")
        ELSE Num(IF StartsWith(s, "-") THEN 0 - mag ELSE mag, e)

\* ast.literal_eval(tree) for a token that starts and ends with a double
\* quote: the text between the quotes (the alphabet has no backslash); a
\* lone quote or a quote inside the text is a SyntaxError.
literal_eval(s) ==
    LET inner == SubSeq(s, 2, Len(s) - 1)
    IN  IF Len(s) < 2 \/ \E i \in 1..Len(inner) : inner[i] = "\""
        THEN Raise("SyntaxError")
        ELSE Str(inner)

\* Lines 85-96: the leaf rules. The test for 'false' follows the
\* unconditional return of Var(tree) and is never reached.
ParseLeaf(t) ==
    IF NUM_RE(t.tok)
    THEN LET d == Decimal(t.tok) IN IF IsRaise(d) THEN d ELSE Atom(d)
    ELSE IF StartsWith(t.tok, "\"") /\ EndsWith(t.tok, "\"")
    THEN LET v == literal_eval(t.tok) IN IF IsRaise(v) THEN v ELSE Atom(v)
    ELSE IF t.tok = tNil THEN Nil
    ELSE IF t.tok = tTrue THEN True_
    ELSE Var(t)

-----------------------------------------------------------------------------
(* Node.parse, lists. ParseR(t) is what Node.parse(t) returns or raises    *)
(* (node) and what it leaves of the list it was handed (tree): the         *)
(* tail-call rules assign to tree[0].                                      *)

\* comparisons (line 109) and ops (lines 112-115), as (token, class) tables
comparisons ==
    { <<(<<"=", "=">>), "Eq">>, <<(<<"<", ">">>), "Ne">>, <<(<<"<">>), "Lt">>,
      <<(<<">">>), "Gt">>, <<(<<"<", "=">>), "Le">>, <<(<<">", "=">>), "Ge">> }

ops ==
    { <<(<<"+">>), 1, "Pos">>, <<(<<"+">>), 2, "Add">>,
      <<(<<"-">>), 1, "Neg">>, <<(<<"-">>), 2, "Sub">>,
      <<(<<"*">>), 2, "Mul">>, <<(<<"/">>), 2, "Div">>,
      <<(<<"%">>), 2, "Mod">>, <<(<<"*", "*">>), 2, "Pow">>,
      <<tAnd, 2, "And">>, <<tOr, 2, "Or">>, <<tNot, 1, "Not">>,
      <<tXor, 2, "Xor">> }

pyfuncs ==
    { <<tPrint, "Print">>, <<tPrintf, "Printf">>, <<tPrintfs, "Printfs">>,
      <<tFormat, "Format">> }

\* Lines 441-444: the classes made by create_unop; every other operator
\* class, Not included (line 465), is made by create_binop.
UNOPS == {"Pos", "Neg"}

\* Lines 446-469: BINOPS
BINOPS ==
    {"Eq", "Ne", "Lt", "Gt", "Le", "Ge", "Add", "Sub", "Mul", "Div", "Mod",
     "Pow", "And", "Or", "Not", "Xor", "Is"}

\* How many operands the parse classmethod of an operator class unpacks.
OperandCount(cls) == IF cls \in UNOPS THEN 1 ELSE 2

NoElse == Node("NoneType", <<>>)

RECURSIVE ParseR(_), ParseSeq(_)

\* [Node.parse(x) for x in kids]: in order, stopping at the first raise.
ParseSeq(kids) ==
    IF kids = <<>> THEN [exc |-> "", nodes |-> <<>>, trees |-> <<>>]
    ELSE LET h == ParseR(kids[1])
         IN  IF IsRaise(h.node)
             THEN [exc |-> h.node.exc, nodes |-> <<>>,
                   trees |-> <<h.tree>> \o Tail(kids)]
             ELSE LET r == ParseSeq(Tail(kids))
                  IN  [exc |-> r.exc, nodes |-> <<h.node>> \o r.nodes,
                       trees |-> <<h.tree>> \o r.trees]

\* cls(*pre, *[Node.parse(x) for x in rest]) where rest are the last
\* Len(rest) elements of the list t.
ParseRest(cls, pre, t, rest) ==
    LET r == ParseSeq(rest)
        kept == SubSeq(t.kids, 1, Len(t.kids) - Len(rest))
    IN  [node |-> IF r.exc # "" THEN Raise(r.exc) ELSE Node(cls, pre \o r.nodes),
         tree |-> Lst(kept \o r.trees)]

Raised(exc, t) == [node |-> Raise(exc), tree |-> t]

\* "_, a, b = tree": a parse classmethod that unpacks exactly n elements.
ParseFixed(cls, t, n) ==
    IF Len(t.kids) # n THEN Raised("ValueError", t)
    ELSE ParseRest(cls, <<>>, t, Tail(t.kids))

\* Set.parse, Setg.parse, Setc.parse
ParseBind(cls, t) ==
    IF Len(t.kids) # 3 THEN Raised("ValueError", t)
    ELSE ParseRest(cls, <<Name(t.kids[2])>>, t, <<t.kids[3]>>)

\* Params.parse: cls(*tree), which iterates a str by characters.
ParseParams(p) ==
    Node("Params",
         IF IsLeaf(p) THEN [i \in 1..Len(p.tok) |-> Leaf(<<p.tok[i]>>)]
         ELSE p.kids)

ParseLambda(t) ==
    IF Len(t.kids) # 3 THEN Raised("ValueError", t)
    ELSE ParseRest("Lambda", <<ParseParams(t.kids[2])>>, t, <<t.kids[3]>>)

\* ops[tree[0]][len(tree[1:])].parse(tree)
ParseOp(t) ==
    LET arity == Len(t.kids) - 1
        hit == {e \in ops : e[1] = t.kids[1].tok /\ e[2] = arity}
    IN  IF hit = {} THEN Raised("KeyError", t)
        ELSE LET cls == (CHOOSE e \in hit : TRUE)[3]
             IN  ParseFixed(cls, t, OperandCount(cls) + 1)

ParseList(t) ==
    IF Len(t.kids) = 1 THEN Raised("TypeError", t)
    ELSE ParseRest("List", <<>>, t, Tail(t.kids))

ParseIfElse(t) ==
    LET n == Len(t.kids)
    IN  IF n < 3 THEN Raised("ValueError", t)
        ELSE IF n = 3
        THEN LET r == ParseRest("IfElse", <<>>, t, Tail(t.kids))
             IN  IF IsRaise(r.node) THEN r
                 ELSE [r EXCEPT !.node.children = @ \o <<NoElse>>]
        ELSE IF n = 4 THEN ParseRest("IfElse", <<>>, t, Tail(t.kids))
        ELSE LET r == ParseRest("IfElse", <<>>, Lst(SubSeq(t.kids, 1, 3)),
                                SubSeq(t.kids, 2, 3))
                 after == Lst(r.tree.kids \o SubSeq(t.kids, 4, n))
             IN  IF IsRaise(r.node) THEN [node |-> r.node, tree |-> after]
                 ELSE Raised("TypeError", after)

ParseWhile(t) ==
    LET n == Len(t.kids)
    IN  IF n < 2 THEN Raised("ValueError", t)
        ELSE IF n = 3 THEN ParseRest("While", <<>>, t, Tail(t.kids))
        ELSE LET c == ParseR(t.kids[2])
             IN  IF IsRaise(c.node)
                 THEN [node |-> c.node,
                       tree |-> Lst(<<t.kids[1], c.tree>> \o SubSeq(t.kids, 3, n))]
                 ELSE IF n = 2
                 THEN Raised("TypeError", Lst(<<t.kids[1], c.tree>>))
                 ELSE LET b == ParseSeq(SubSeq(t.kids, 3, n))
                      IN  [node |-> IF b.exc # "" THEN Raise(b.exc)
                                    ELSE Node("While",
                                              <<c.node, Node("Suite", b.nodes)>>),
                           tree |-> Lst(<<t.kids[1], c.tree>> \o b.trees)]

\* Atom(Node.parse(tree[1]))
ParseQuoted(t) ==
    IF Len(t.kids) < 2 THEN Raised("IndexError", t)
    ELSE LET q == ParseR(t.kids[2])
         IN  [node |-> IF IsRaise(q.node) THEN q.node ELSE Atom(q.node),
              tree |-> Lst(<<t.kids[1], q.tree>> \o SubSeq(t.kids, 3, Len(t.kids)))]

\* Lines 143-153: a list whose head is a name is a call, a tail call when
\* the name starts with ^; the marker is cut off the list's own head.
ParseCall(t) ==
    IF StartsWith(t.kids[1].tok, "^")
    THEN LET cut == Lst(<<Leaf(Tail(t.kids[1].tok))>> \o Tail(t.kids))
         IN  ParseRest("TailCall", <<Name(cut.kids[1])>>, cut, Tail(cut.kids))
    ELSE ParseRest("Call", <<Name(t.kids[1])>>, t, Tail(t.kids))

ParseR(t) ==
    IF IsLeaf(t) THEN [node |-> ParseLeaf(t), tree |-> t]
    ELSE LET kids == t.kids
             n == Len(kids)
             head == kids[1]
             cmp == {e \in comparisons : e[1] = head.tok}
             py == {e \in pyfuncs : e[1] = head.tok}
         IN  IF \A i \in 1..n : IsList(kids[i])
             THEN ParseRest("Suite", <<>>, t, kids)
             ELSE IF HeadIs(head, tSet) THEN ParseBind("Set", t)
             ELSE IF HeadIs(head, tSetg) THEN ParseBind("Setg", t)
             ELSE IF HeadIs(head, tSetc) THEN ParseBind("Setc", t)
             ELSE IF HeadIs(head, tRet) THEN ParseFixed("Ret", t, 2)
             ELSE IF HeadIs(head, tLambda) THEN ParseLambda(t)
             \* tree[0] in comparisons hashes tree[0]: a list is unhashable
             ELSE IF IsList(head) THEN Raised("TypeError", t)
             ELSE IF cmp # {}
             THEN ParseFixed((CHOOSE e \in cmp : TRUE)[2], t, 3)
             ELSE IF \E e \in ops : e[1] = head.tok THEN ParseOp(t)
             ELSE IF py # {}
             THEN ParseRest((CHOOSE e \in py : TRUE)[2], <<>>, t, Tail(kids))
             ELSE IF head.tok = tAssert THEN ParseFixed("Assert", t, 3)
             ELSE IF head.tok = tList THEN ParseList(t)
             ELSE IF head.tok = tCons THEN ParseFixed("Cons", t, 3)
             ELSE IF head.tok = tCar THEN ParseFixed("Car", t, 2)
             ELSE IF head.tok = tCdr THEN ParseFixed("Cdr", t, 2)
             ELSE IF head.tok = tIf THEN ParseIfElse(t)
             ELSE IF head.tok = tWhile THEN ParseWhile(t)
             ELSE IF head.tok = tParse THEN ParseFixed("Parse", t, 2)
             ELSE IF head.tok = tQuoted THEN ParseQuoted(t)
             ELSE IF head.tok = tEval THEN ParseFixed("Eval", t, 2)
             ELSE IF head.tok = tRead THEN [node |-> Node("Read", <<>>), tree |-> t]
             ELSE IF n = 1 THEN ParseCall(t)
             ELSE IF IsLeaf(head)
             THEN IF n > 1 THEN ParseCall(t)
                  ELSE [node |-> Var(head), tree |-> t]
             ELSE [node |-> Node("NotImplemented", <<t>>), tree |-> t]

\* Node.parse(tree): the node returned, or the exception raised
Parse(t) == ParseR(t).node

-----------------------------------------------------------------------------
(* The classifier on its own: a token tree is drawn from TreePool and      *)
(* Node.parse is run on it, up to MaxParses times on the same list object. *)

tX == <<"x">>
tY == <<"y">>
tF == <<"f">>
tG == <<"g">>

\* Leaves: names, numerals (also the digit-free strings NUM_RE accepts),
\* string literals, the three singleton words, a marked name.
LeafPool ==
    { Leaf(tX), Leaf(tNil), Leaf(tTrue), Leaf(tFalse),
      Leaf(<<"1">>), Leaf(<<"-", "2">>), Leaf(<<"1", ".", "5">>),
      Leaf(<<"1", ".">>), Leaf(<<".", "5">>), Leaf(<<>>), Leaf(<<"+">>),
      Leaf(<<".">>), Leaf(<<"\"", "a", "\"">>), Leaf(<<"\"">>),
      Leaf(<<"\"", "\"", "\"">>), Leaf(<<"^", "f">>), Leaf(tNot),
      Leaf(<<"1", "x">>), Leaf(<<"f", "a", "l", "s", "e", "y">>) }

\* Heads of the generated lists: every word Node.parse tests for, plain and
\* marked names, and a head that is itself a list.
HeadPool ==
    { Leaf(w) : w \in {tSet, tSetg, tSetc, tRet, tLambda, tAssert, tList,
                       tCons, tCar, tCdr, tIf, tWhile, tParse, tQuoted,
                       tEval, tRead, tF, <<"^", "f">>, <<"^">>} }
    \cup { Leaf(e[1]) : e \in comparisons }
    \cup { Leaf(e[1]) : e \in ops }
    \cup { Leaf(e[1]) : e \in pyfuncs }
    \cup { Lst(<<Leaf(tF)>>), Lst(<<>>) }

OperandPool == { Leaf(tX), Leaf(tFalse), Lst(<<Leaf(<<"^", "g">>), Leaf(tY)>>) }

TreePool ==
    LeafPool
    \cup { Lst(<<h>> \o args) :
             h \in HeadPool,
             args \in UNION { [1..n -> OperandPool] : n \in 0..MaxArity } }
    \cup { Lst(<<>>),
           Lst(<<Lst(<<Leaf(tF)>>), Lst(<<Leaf(tSet), Leaf(tX), Leaf(tFalse)>>)>>) }

Off == [tag |-> "off"]
NoTree == Leaf(<<>>)
VmOff == [on |-> FALSE]

InitParse ==
    /\ tree \in TreePool
    /\ asts = <<>>
    /\ scoping = "LEXICAL"
    /\ heap = <<>>
    /\ ctl = Off
    /\ kont = <<>>
    /\ depth = 0
    /\ nstmt = 0
    /\ vm = VmOff

\* Node.parse(tree)
Classify ==
    /\ ctl = Off
    /\ Len(asts) < MaxParses
    /\ LET r == ParseR(tree)
       IN  /\ asts' = Append(asts, r.node)
           /\ tree' = r.tree
    /\ UNCHANGED <<scoping, heap, ctl, kont, depth, nstmt, vm>>

NextParse == Classify

SpecParse == InitParse /\ [][NextParse]_vars

-----------------------------------------------------------------------------
(* Environments. A dict is a heap object named by its index; a ChainMap    *)
(* is the list of its maps (dicts, or under dynamic scoping a ChainMap).   *)
(* A ChainMap is never changed after it is built, so it is held by value.  *)

DictRef(i) == [k |-> "dict", id |-> i]
ChainMap(maps) == [k |-> "ChainMap", maps |-> maps]
IsChainMap(env) == env.k = "ChainMap"

\* The environment the top-level statements are evaluated in: a plain dict
\* (the else branches of lines 208-209, 230-231, 668-669).
GlobalEnv == DictRef(1)

\* A lookup that raised KeyError
Missing == [k |-> "KeyError"]

RECURSIVE GetItem(_, _, _), GetFirst(_, _, _)

\* env[key]: dict.__getitem__, or ChainMap.__getitem__ which tries its maps
\* in order and takes the first that has the key.
GetItem(env, key, h) ==
    IF IsChainMap(env) THEN GetFirst(env.maps, key, h)
    ELSE IF key \in DOMAIN h[env.id] THEN h[env.id][key]
    ELSE Missing

\* A lookup that tried the maps from the last to the first.
GetFirst_Reversed(maps, key, h) ==
    IF maps = <<>> THEN Missing
    ELSE LET v == GetItem(maps[Len(maps)], key, h)
         IN  IF v # Missing THEN v
             ELSE GetFirst(SubSeq(maps, 1, Len(maps) - 1), key, h)

GetFirst(maps, key, h) ==
    IF maps = <<>> THEN Missing
    ELSE LET v == GetItem(Head(maps), key, h)
         IN  IF v # Missing THEN v ELSE GetFirst(Tail(maps), key, h)

RECURSIVE WriteTarget(_)

\* The dict that env[key] = value writes: the dict itself, or for a
\* ChainMap its maps[0].
WriteTarget(env) ==
    IF IsChainMap(env) THEN WriteTarget(env.maps[1]) ELSE env.id

\* A Set that wrote the outermost map as Setg does.
SetTarget_Outermost(env) ==
    IF IsChainMap(env) THEN WriteTarget(env.maps[Len(env.maps)])
    ELSE WriteTarget(env)

\* Line 187: env[name.value] = value
SetTarget(env) == WriteTarget(env)

\* Lines 206-209: env.maps[-1][name.value] = value, or env[...] for a dict
SetgTarget(env) ==
    IF IsChainMap(env) THEN WriteTarget(env.maps[Len(env.maps)])
    ELSE WriteTarget(env)

\* Lines 228-231: env.maps[1][name.value] = value, or env[...] for a dict
SetcTarget(env) ==
    IF IsChainMap(env) THEN WriteTarget(env.maps[2]) ELSE WriteTarget(env)

Store(h, id, key, value) == [h EXCEPT ![id] = (key :> value) @@ @]

-----------------------------------------------------------------------------
(* Values.                                                                 *)

Cell(car, cdr) == Node("Cell", <<car, cdr>>)

\* The class Ufunc a Lambda evaluation makes (lines 670-683): it closes over
\* params, body and closures.
UfuncClass(params, body, closures) ==
    [k |-> "UfuncClass", params |-> params, body |-> body, closures |-> closures]

\* An instance of such a class: Ufunc(*args)
Ufunc(cls, args) == [k |-> "Ufunc", cls |-> cls, children |-> args]

TypeOf(r) == IF "t" \in DOMAIN r THEN r.t ELSE "object"

RECURSIVE ValueOf(_)

\* node.value: the value properties of lines 357, 510, 535, 542, 550, 558, 682
ValueOf(v) ==
    CASE v.k = "Atom" -> v.children[1]
      [] v.k = "Nil" -> None
      [] v.k = "True_" -> Bool(TRUE)
      [] v.k = "False_" -> Bool(FALSE)
      [] v.k = "Cell" -> Tuple(ValueOf(v.children[1]), ValueOf(v.children[2]))
      [] v.k = "Name" -> Str(v.children[1].tok)
      [] v.k = "Ufunc" -> [t |-> "object", obj |-> v]
      [] v.k = "UfuncClass" -> [t |-> "property"]

\* bool(x) of a raw value
Truthy(r) ==
    CASE TypeOf(r) = "num" -> r.n # 0
      [] TypeOf(r) = "str" -> r.s # <<>>
      [] TypeOf(r) = "bool" -> r.b
      [] TypeOf(r) = "none" -> FALSE
      [] OTHER -> TRUE

RECURSIVE Pow10(_)
Pow10(e) == IF e = 0 THEN 1 ELSE 10 * Pow10(e - 1)

IsNumeric(r) == TypeOf(r) \in {"num", "bool"}
AsNum(r) == IF r.t = "bool" THEN Num(IF r.b THEN 1 ELSE 0, 0) ELSE r
MaxOf(a, b) == IF a >= b THEN a ELSE b

\* The coefficient of a number written with e fraction digits
Scaled(r, e) == AsNum(r).n * Pow10(e - AsNum(r).e)

\* op(left, right) for the operator functions of lines 446-467, on exact
\* decimals, strings and booleans. (truediv, mod, pow and is_ are not
\* modelled; no program of the model applies them.)
ApplyBinop(cls, l, r) ==
    LET e == MaxOf(AsNum(l).e, AsNum(r).e)
        a == Scaled(l, e)
        b == Scaled(r, e)
        nums == IsNumeric(l) /\ IsNumeric(r)
        bools == TypeOf(l) = "bool" /\ TypeOf(r) = "bool"
    IN  CASE cls = "Add" ->
                IF nums THEN Num(a + b, e)
                ELSE IF TypeOf(l) = "str" /\ TypeOf(r) = "str" THEN Str(l.s \o r.s)
                ELSE Raise("TypeError")
          [] cls = "Sub" -> IF nums THEN Num(a - b, e) ELSE Raise("TypeError")
          [] cls = "Mul" ->
                IF nums THEN Num(AsNum(l).n * AsNum(r).n, AsNum(l).e + AsNum(r).e)
                ELSE Raise("TypeError")
          [] cls = "Eq" -> Bool(IF nums THEN a = b ELSE l = r)
          [] cls = "Ne" -> Bool(IF nums THEN a # b ELSE l # r)
          [] cls = "Lt" -> IF nums THEN Bool(a < b) ELSE Raise("TypeError")
          [] cls = "Gt" -> IF nums THEN Bool(a > b) ELSE Raise("TypeError")
          [] cls = "Le" -> IF nums THEN Bool(a <= b) ELSE Raise("TypeError")
          [] cls = "Ge" -> IF nums THEN Bool(a >= b) ELSE Raise("TypeError")
          [] cls = "And" -> IF bools THEN Bool(l.b /\ r.b) ELSE Raise("TypeError")
          [] cls = "Or" -> IF bools THEN Bool(l.b \/ r.b) ELSE Raise("TypeError")
          [] cls = "Xor" -> IF bools THEN Bool(l.b # r.b) ELSE Raise("TypeError")
          \* operator.not_ takes one argument
          [] cls = "Not" -> Raise("TypeError")

\* op(arg) for operator.pos and operator.neg
ApplyUnop(cls, x) ==
    IF ~IsNumeric(x) THEN Raise("TypeError")
    ELSE IF cls = "Pos" THEN AsNum(x)
    ELSE Num(0 - AsNum(x).n, AsNum(x).e)

\* Lines 264-269: the Cell chain List.__call__ builds from its values
RECURSIVE CellChain(_)
CellChain(values) ==
    IF Len(values) = 1 THEN Cell(values[1], Nil)
    ELSE Cell(Head(values), CellChain(Tail(values)))

-----------------------------------------------------------------------------
(* The tree-walking evaluator. ctl says what happens next:                 *)
(*   [tag |-> "call", node, env]  node(env) is about to run                *)
(*   [tag |-> "ret", val]         a __call__ returned val to the innermost *)
(*                                activation of kont (to the caller of the *)
(*                                evaluator when kont is empty)            *)
(*   [tag |-> "raise", exc]       an exception left the evaluator          *)
(* kont holds the activations in progress: the node, its env, the values   *)
(* of the sub-evaluations made so far (acc) and where it stands (st).      *)
(* No __call__ catches what a sub-evaluation raises (the KeyError handlers *)
(* of Var and Call catch only the failed lookup), so a raise empties kont; *)
(* the debug wrapper (lines 37-54) adds one to depth on entry and          *)
(* subtracts it after f returned, which a raise skips.                     *)

Idle == [tag |-> "idle"]
CallOf(node, env) == [tag |-> "call", node |-> node, env |-> env]
RetOf(val) == [tag |-> "ret", val |-> val]
RaiseOf(exc) == [tag |-> "raise", exc |-> exc]

Activation(node, env, acc, st) == [node |-> node, env |-> env, acc |-> acc, st |-> st]

Calling(classes) == ctl.tag = "call" /\ ctl.node.k \in classes
Resuming(classes) == ctl.tag = "ret" /\ kont # <<>> /\ Head(kont).node.k \in classes
Running(classes) == Calling(classes) \/ Resuming(classes)

\* The activation an action works on: the one being entered, or the
\* innermost of kont when a sub-evaluation returns to it.
Entering == ctl.tag = "call"
CurNode == IF Entering THEN ctl.node ELSE Head(kont).node
CurEnv == IF Entering THEN ctl.env ELSE Head(kont).env
CurAcc == IF Entering THEN <<>> ELSE Append(Head(kont).acc, ctl.val)
CurSt == IF Entering THEN "enter" ELSE Head(kont).st
Below == IF Entering THEN kont ELSE Tail(kont)
DepthBefore == IF Entering THEN depth ELSE depth - 1

\* The activation goes on with a sub-evaluation.
SubCall(node, env, acc, st) ==
    /\ ctl' = CallOf(node, env)
    /\ kont' = <<Activation(CurNode, CurEnv, acc, st)>> \o Below
    /\ depth' = DepthBefore + 1

\* The activation returns val (the wrapper's depth -= 1 included).
Return(val) ==
    /\ ctl' = RetOf(val)
    /\ kont' = Below
    /\ depth' = DepthBefore

\* The activation raises.
Throw(exc) ==
    /\ ctl' = RaiseOf(exc)
    /\ kont' = <<>>
    /\ depth' = DepthBefore + 1

Quiet == UNCHANGED <<tree, asts, scoping, nstmt, vm>>

\* A name used as a dict key: a str is hashable, a list is not.
Hashable(name) == IsLeaf(name)

\* Atom.__call__ (lines 530-532)
AtomCall ==
    /\ Calling({"Atom"})
    /\ Return(ctl.node)
    /\ UNCHANGED heap /\ Quiet

\* Cell.__call__ (lines 350-352)
CellCall ==
    /\ Calling({"Cell"})
    /\ Return(ctl.node)
    /\ UNCHANGED heap /\ Quiet

\* Nil.__call__, True_.__call__, False_.__call__ (lines 540, 548, 556):
\* not wrapped by debug
SingletonCall ==
    /\ Calling({"Nil", "True_", "False_"})
    /\ ctl' = RetOf(ctl.node)
    /\ UNCHANGED <<kont, depth, heap>> /\ Quiet

\* Var.__call__ (lines 517-522): env[self.name](env)
VarCall ==
    /\ Running({"Var"})
    /\ IF Entering
       THEN LET v == GetItem(CurEnv, CurNode.children[1].tok, heap)
            IN  IF v = Missing THEN Throw("ProgramError")
                ELSE IF v.k = "UfuncClass" THEN Return(Ufunc(v, <<CurEnv>>))
                ELSE IF v.k \in {"dict", "ChainMap"} THEN Throw("TypeError")
                ELSE SubCall(v, CurEnv, <<>>, "value")
       ELSE Return(ctl.val)
    /\ UNCHANGED heap /\ Quiet

\* Suite.__call__ (lines 170-175)
SuiteCall ==
    /\ Running({"Suite"})
    /\ LET n == Len(CurAcc)
       IN  IF n < Len(CurNode.children)
           THEN SubCall(CurNode.children[n + 1], CurEnv, CurAcc, "child")
           ELSE Return(IF n = 0 THEN Nil ELSE CurAcc[n])
    /\ UNCHANGED heap /\ Quiet

\* The three binding forms: self.name(env) returns the Name, then the value
\* is evaluated, bound in the dict `target` names and returned.
Bind(target) ==
    IF Entering THEN SubCall(CurNode.children[2], CurEnv, <<>>, "value") /\ UNCHANGED heap
    ELSE IF ~Hashable(CurNode.children[1].children[1])
    THEN Throw("TypeError") /\ UNCHANGED heap
    ELSE /\ heap' = Store(heap, target, CurNode.children[1].children[1].tok, ctl.val)
         /\ Return(ctl.val)

\* Set.__call__ (lines 184-188)
SetCall ==
    /\ Running({"Set"})
    /\ Bind(SetTarget(CurEnv))
    /\ Quiet

\* Setg.__call__ (lines 203-210)
SetgCall ==
    /\ Running({"Setg"})
    /\ Bind(SetgTarget(CurEnv))
    /\ Quiet

\* Setc.__call__ (lines 225-232)
SetcCall ==
    /\ Running({"Setc"})
    /\ Bind(SetcTarget(CurEnv))
    /\ Quiet

\* Ret.__call__ (lines 247-249)
RetCall ==
    /\ Running({"Ret"})
    /\ IF Entering THEN SubCall(CurNode.children[1], CurEnv, <<>>, "value")
       ELSE Return(ctl.val)
    /\ UNCHANGED heap /\ Quiet

\* List.__call__ (lines 262-269)
ListCall ==
    /\ Running({"List"})
    /\ IF Len(CurAcc) < Len(CurNode.children)
       THEN SubCall(CurNode.children[Len(CurAcc) + 1], CurEnv, CurAcc, "values")
       ELSE Return(CellChain(CurAcc))
    /\ UNCHANGED heap /\ Quiet

\* Cons.__call__ (lines 302-305)
ConsCall ==
    /\ Running({"Cons"})
    /\ IF Len(CurAcc) < 2
       THEN SubCall(CurNode.children[Len(CurAcc) + 1], CurEnv, CurAcc, "operands")
       ELSE Return(Cell(CurAcc[1], CurAcc[2]))
    /\ UNCHANGED heap /\ Quiet

\* self.cons(env).car and .cdr: only a Cell has these attributes
Project(i) ==
    IF Entering THEN SubCall(CurNode.children[1], CurEnv, <<>>, "cons")
    ELSE IF ctl.val.k = "Cell" THEN Return(ctl.val.children[i])
    ELSE Throw("AttributeError")

\* Car.__call__ (lines 320-322)
CarCall ==
    /\ Running({"Car"})
    /\ Project(1)
    /\ UNCHANGED heap /\ Quiet

\* Cdr.__call__ (lines 335-337)
CdrCall ==
    /\ Running({"Cdr"})
    /\ Project(2)
    /\ UNCHANGED heap /\ Quiet

\* Assert.__call__ (lines 368-372)
AssertCall ==
    /\ Running({"Assert"})
    /\ IF Entering THEN SubCall(CurNode.children[1], CurEnv, <<>>, "cond")
       ELSE IF CurSt = "cond"
       THEN IF Truthy(ValueOf(ctl.val)) THEN Return(Nil)
            ELSE SubCall(CurNode.children[2], CurEnv, CurAcc, "msg")
       ELSE Throw("ProgramError")
    /\ UNCHANGED heap /\ Quiet

\* The __call__ of a create_binop class (lines 392-395)
BinopCall ==
    /\ Running(BINOPS)
    /\ IF Len(CurAcc) < 2
       THEN SubCall(CurNode.children[Len(CurAcc) + 1], CurEnv, CurAcc, "operands")
       ELSE LET r == ApplyBinop(CurNode.k, ValueOf(CurAcc[1]), ValueOf(CurAcc[2]))
            IN  IF IsRaise(r) THEN Throw(r.exc) ELSE Return(Atom(r))
    /\ UNCHANGED heap /\ Quiet

\* The __call__ of a create_unop class (lines 420-423)
UnopCall ==
    /\ Running(UNOPS)
    /\ IF Entering THEN SubCall(CurNode.children[1], CurEnv, <<>>, "arg")
       ELSE LET r == ApplyUnop(CurNode.k, ValueOf(ctl.val))
            IN  IF IsRaise(r) THEN Throw(r.exc) ELSE Return(Atom(r))
    /\ UNCHANGED heap /\ Quiet

\* While.__call__ (lines 564-569): acc holds rv
WhileCall ==
    /\ Running({"While"})
    /\ IF Entering THEN SubCall(CurNode.children[1], CurEnv, <<Nil>>, "cond")
       ELSE IF CurSt = "cond"
       THEN IF Truthy(ValueOf(ctl.val))
            THEN SubCall(CurNode.children[2], CurEnv, Head(kont).acc, "body")
            ELSE Return(Head(kont).acc[1])
       ELSE SubCall(CurNode.children[1], CurEnv, <<ctl.val>>, "cond")
    /\ UNCHANGED heap /\ Quiet

\* IfElse.__call__ (lines 590-598): a node is truthy, None is not
IfElseCall ==
    /\ Running({"IfElse"})
    /\ IF Entering THEN SubCall(CurNode.children[1], CurEnv, <<>>, "cond")
       ELSE IF CurSt = "cond"
       THEN IF Truthy(ValueOf(ctl.val))
            THEN SubCall(CurNode.children[2], CurEnv, <<>>, "branch")
            ELSE IF CurNode.children[3].k # NoElse.k
            THEN SubCall(CurNode.children[3], CurEnv, <<>>, "branch")
            ELSE Return(Nil)
       ELSE Return(ctl.val)
    /\ UNCHANGED heap /\ Quiet

\* What env[self.name.value](*args) gives for the value v found: a Ufunc
\* class makes an instance; a node instance is called with args as its
\* (self, env), which needs exactly one and returns the node itself.
Applied(v, args) ==
    IF v.k = "UfuncClass" THEN Ufunc(v, args)
    ELSE IF Len(args) # 1 \/ v.k \in {"dict", "ChainMap"} THEN Raise("TypeError")
    ELSE CASE v.k \in {"Atom", "Cell", "Nil", "True_", "False_", "Name"} -> v

\* Call.__call__ (lines 625-632), which TailCall inherits
CallCall ==
    /\ Running({"Call", "TailCall"})
    /\ LET args == Tail(CurNode.children)
       IN  IF CurSt = "node" THEN Return(ctl.val)
           ELSE IF Len(CurAcc) < Len(args)
           THEN SubCall(args[Len(CurAcc) + 1], CurEnv, CurAcc, "args")
           ELSE IF ~Hashable(CurNode.children[1].children[1]) THEN Throw("TypeError")
           ELSE LET v == GetItem(CurEnv, CurNode.children[1].children[1].tok, heap)
                IN  IF v = Missing THEN Throw("ProgramError")
                    ELSE IF IsRaise(Applied(v, CurAcc)) THEN Throw("TypeError")
                    ELSE SubCall(Applied(v, CurAcc), CurEnv, CurAcc, "node")
    /\ UNCHANGED heap /\ Quiet

\* Lines 666-669: the frames a Lambda evaluation captures
Closures(env) ==
    IF IsChainMap(env) THEN SubSeq(env.maps, 1, Len(env.maps) - 1) ELSE <<>>

\* Lambda.__call__ (lines 663-683)
LambdaCall ==
    /\ Calling({"Lambda"})
    /\ Return(UfuncClass(ctl.node.children[1].children, ctl.node.children[2],
                         Closures(ctl.env)))
    /\ UNCHANGED heap /\ Quiet

\* Line 673: dict(zip(params.value, self.args))
RECURSIVE ZipDict(_, _)
ZipDict(params, args) ==
    IF params = <<>> \/ args = <<>> THEN <<>>
    ELSE (params[Len(params)].tok :> args[Len(params)])
         @@ ZipDict(SubSeq(params, 1, Len(params) - 1), args)

MinOf(a, b) == IF a <= b THEN a ELSE b

\* An invocation that chained the call-site environment in either mode.
LocalEnv_CallSite(local, closures, env, mode) ==
    ChainMap(<<local>> \o closures \o <<env>>)

\* Lines 674-677: the environment of an invocation, whose local frame is
\* the new dict `local`
LocalEnv(local, closures, env, mode) ==
    IF IsChainMap(env) /\ mode = "LEXICAL"
    THEN ChainMap(<<local>> \o closures \o <<env.maps[Len(env.maps)]>>)
    ELSE ChainMap(<<local>> \o closures \o <<env>>)

\* Ufunc.__call__ (lines 671-678)
UfuncCall ==
    /\ Running({"Ufunc"})
    /\ IF Entering
       THEN LET cls == CurNode.cls
                n == MinOf(Len(cls.params), Len(CurNode.children))
                params == SubSeq(cls.params, 1, n)
                args == SubSeq(CurNode.children, 1, n)
            IN  IF \E i \in 1..n : ~Hashable(params[i])
                THEN Throw("TypeError") /\ UNCHANGED heap
                ELSE /\ heap' = Append(heap, ZipDict(params, args))
                     /\ SubCall(cls.body,
                                LocalEnv(DictRef(Len(heap) + 1), cls.closures,
                                         CurEnv, scoping),
                                <<>>, "body")
       ELSE Return(ctl.val) /\ UNCHANGED heap
    /\ Quiet

-----------------------------------------------------------------------------
(* A session of the evaluator: the statements of Session are classified    *)
(* and evaluated one after the other in the same global dict; a statement  *)
(* that raised is followed by the next one. The first statements define    *)
(* the functions the later ones call; the last two are drawn from pools.   *)

L2(a, b) == Lst(<<a, b>>)
L3(a, b, c) == Lst(<<a, b, c>>)
L4(a, b, c, d) == Lst(<<a, b, c, d>>)

NumTok(n) == Leaf(<<DigitChar(n)>>)
Nums == { NumTok(n) : n \in 0..MaxNum }

nX == Leaf(tX)
nY == Leaf(tY)
nV == Leaf(<<"v">>)
nN == Leaf(<<"n">>)
nG == Leaf(tG)
nC == Leaf(<<"c">>)
nK == Leaf(<<"k">>)
nR == Leaf(<<"r">>)
nP == Leaf(<<"p">>)
nW == Leaf(<<"w">>)
nInc == Leaf(<<"i", "n", "c">>)
nOuter == Leaf(<<"o", "u", "t", "e", "r">>)
nDeep == Leaf(<<"d", "e", "e", "p">>)
nLoc == Leaf(<<"l", "o", "c">>)
nTop == Leaf(<<"t", "o", "p">>)
nMk == Leaf(<<"m", "k">>)
nRd == Leaf(<<"r", "d">>)
nSh == Leaf(<<"s", "h">>)
nMkrd == Leaf(<<"m", "k", "r", "d">>)
nCallk == Leaf(<<"c", "a", "l", "l", "k">>)
nCallr == Leaf(<<"c", "a", "l", "l", "r">>)
nRec == Leaf(<<"r", "e", "c">>)
nNofn == Leaf(<<"n", "o", "f", "n">>)
nZz == Leaf(<<"z", "z">>)

Def(name, params, body) ==
    L3(Leaf(tSet), name, L3(Leaf(tLambda), Lst(params), body))

\* (set x 9)
\* (set inc   (lambda (v) (setg g v)))
\* (set outer (lambda (x) (inc x)))
\* (set deep  (lambda (y) (outer y)))
\* (set loc   (lambda (v) (set x v)))
\* (set top   (lambda (v) (setc c v)))
\* (set mk    (lambda (x) (lambda (v) (setc x v))))
\* (set callk (lambda (x) (k x)))
\* (set rd    (lambda () x))
\* (set sh    (lambda (x) (rd)))
\* (set mkrd  (lambda (x) (lambda () x)))
\* (set callr (lambda (x) (^r)))
\* (set rec   (lambda (n) (if (< 0 n) ((set x n) (rec (- n 1))) x)))
Prelude ==
    << L3(Leaf(tSet), nX, Leaf(<<"9">>)),
       Def(nInc, <<nV>>, L3(Leaf(tSetg), nG, nV)),
       Def(nOuter, <<nX>>, L2(nInc, nX)),
       Def(nDeep, <<nY>>, L2(nOuter, nY)),
       Def(nLoc, <<nV>>, L3(Leaf(tSet), nX, nV)),
       Def(nTop, <<nV>>, L3(Leaf(tSetc), nC, nV)),
       Def(nMk, <<nX>>, L3(Leaf(tLambda), Lst(<<nV>>), L3(Leaf(tSetc), nX, nV))),
       Def(nCallk, <<nX>>, L2(nK, nX)),
       Def(nRd, <<>>, nX),
       Def(nSh, <<nX>>, Lst(<<nRd>>)),
       Def(nMkrd, <<nX>>, L3(Leaf(tLambda), Lst(<<>>), nX)),
       Def(nCallr, <<nX>>, Lst(<<Leaf(<<"^", "r">>)>>)),
       Def(nRec, <<nN>>,
           L4(Leaf(tIf), L3(Leaf(<<"<">>), NumTok(0), nN),
              L2(L3(Leaf(tSet), nX, nN),
                 L2(nRec, L3(Leaf(<<"-">>), nN, NumTok(1)))),
              nX)) >>

\* Statements that leave something behind for the next one.
SetupPool ==
    { L3(Leaf(tSet), nK, L2(nMk, a)) : a \in Nums }
    \cup { L3(Leaf(tSet), nR, L2(nMkrd, a)) : a \in Nums }
    \cup { L2(nInc, a) : a \in Nums }
    \cup { L3(Leaf(tSet), nP, L3(Leaf(tCons), a, Leaf(tNil))) : a \in Nums }
    \cup { nZz, L2(nNofn, L3(Leaf(tSet), nY, NumTok(1))),
           L3(Leaf(tAssert), Leaf(tFalse), Leaf(<<"\"", "m", "\"">>)),
           L2(Leaf(tCar), NumTok(1)) }

StmtPool ==
    { L2(f, a) : f \in {nInc, nOuter, nDeep, nLoc, nTop, nK, nCallk, nSh,
                         nCallr, nRec, nNofn},
                 a \in Nums }
    \cup { Lst(<<nRd>>), Lst(<<nR>>), nX, nG, nP, nZz, nInc, Leaf(tTrue) }
    \cup { L2(h, L3(Leaf(tCons), a, Leaf(tNil))) : h \in {Leaf(tCar), Leaf(tCdr)},
                                                    a \in Nums }
    \cup { L2(h, a) : h \in {Leaf(tCar), Leaf(tCdr)},
                      a \in {NumTok(1), Leaf(tNil), Leaf(tTrue),
                             Leaf(<<"\"", "s", "\"">>), nInc, nP,
                             L3(Leaf(tLambda), Lst(<<>>), nX)} }
    \cup { L2(L3(Leaf(tSet), nW, NumTok(0)),
              L3(Leaf(tWhile), L3(Leaf(<<"<">>), nW, a),
                 L3(Leaf(tSet), nW, L3(Leaf(<<"+">>), nW, NumTok(1))))) :
             a \in Nums }
    \cup { L3(Leaf(tIf), L3(Leaf(<<"<">>), a, NumTok(1)), L2(Leaf(<<"-">>), a)) :
             a \in Nums }
    \cup { L4(Leaf(tIf), L3(Leaf(<<"=", "=">>), a, NumTok(1)), Leaf(tNil), L2(nLoc, a)) :
             a \in Nums }
    \cup { L3(Leaf(tAssert), L3(Leaf(<<"<">>), a, NumTok(1)), Leaf(<<"\"", "m", "\"">>)) :
             a \in Nums }
    \cup { L3(Leaf(tList), a, nX) : a \in Nums }
    \cup { L2(Leaf(tRet), a) : a \in Nums }
    \cup { L2(nNofn, L3(Leaf(tSet), nY, a)) : a \in Nums }

Session == [i \in 1..Len(Prelude) |-> {Prelude[i]}] \o <<SetupPool, StmtPool>>

InitEval ==
    /\ tree = NoTree
    /\ asts = <<>>
    /\ scoping \in {"LEXICAL", "DYNAMIC"}
    /\ heap = << <<>> >>
    /\ ctl = Idle
    /\ kont = <<>>
    /\ depth = 0
    /\ nstmt = 0
    /\ vm = VmOff

\* The evaluation of the last statement handed in has ended.
Returned == ctl.tag = "ret" /\ kont = <<>>
Raised_ == ctl.tag = "raise"
AtRest == ctl.tag = "idle" \/ Returned \/ Raised_

\* Node.parse(s)(env) for the next statement of the session
Evaluate ==
    /\ AtRest
    /\ nstmt < Len(Session)
    /\ \E s \in Session[nstmt + 1] :
          /\ ~IsRaise(Parse(s))
          /\ ctl' = CallOf(Parse(s), GlobalEnv)
    /\ kont' = <<>>
    /\ nstmt' = nstmt + 1
    /\ UNCHANGED <<tree, asts, scoping, heap, depth, vm>>

NextEval ==
    \/ Evaluate
    \/ AtomCall \/ CellCall \/ SingletonCall \/ VarCall \/ SuiteCall
    \/ SetCall \/ SetgCall \/ SetcCall \/ RetCall
    \/ ListCall \/ ConsCall \/ CarCall \/ CdrCall \/ AssertCall
    \/ BinopCall \/ UnopCall \/ WhileCall \/ IfElseCall
    \/ CallCall \/ LambdaCall \/ UfuncCall

SpecEval == InitEval /\ [][NextEval]_vars

-----------------------------------------------------------------------------
(* The instruction compiler: iterating a node yields its opcodes. An       *)
(* opcode is a record; the opcode classes come from the insts module.      *)

Label(name) == [op |-> "Label", name |-> name]
PushImm(value) == [op |-> "PushImm", value |-> value]
PushVar(name) == [op |-> "PushVar", name |-> name]
PopVar(name) == [op |-> "PopVar", name |-> name]
PushGlobalVar(name) == [op |-> "PushGlobalVar", name |-> name]
PopGlobalVar(name) == [op |-> "PopGlobalVar", name |-> name]
PushClosureVar(name) == [op |-> "PushClosureVar", name |-> name]
PopClosureVar(name) == [op |-> "PopClosureVar", name |-> name]
JumpIfFalse(name) == [op |-> "JumpIfFalse", name |-> name]
JumpAlways(name) == [op |-> "JumpAlways", name |-> name]
PushFunc(name) == [op |-> "PushFunc", name |-> name]
PushTailFunc(name) == [op |-> "PushTailFunc", name |-> name]
PopFunc == [op |-> "PopFunc"]
CreateFunc(params, body) == [op |-> "CreateFunc", params |-> params, body |-> body]
CallPyFunc(func, n) == [op |-> "CallPyFunc", func |-> func, n |-> n]
ReadInput == [op |-> "ReadInput"]
Evaluate_ == [op |-> "Evaluate"]
Noop == [op |-> "Noop"]
Missing_(node) == [op |-> "Missing", node |-> node]

\* A label that named the kind of target only, not the node.
LabelName_Prefix(prefix, path) == [prefix |-> prefix, id |-> <<>>]

\* f'{prefix}-{hex(id(self))}': the nodes of one tree are distinct objects,
\* so id(self) tells them apart as their place in the tree (path) does.
LabelName(prefix, path) == [prefix |-> prefix, id |-> path]

Upto(lo, hi) == [i \in 1..(hi - lo + 1) |-> lo + i - 1]
Downto(hi, lo) == [i \in 1..(hi - lo + 1) |-> hi + 1 - i]

RECURSIVE Compile(_, _), Emit(_, _, _)

\* "yield from child" for the children of node at the indexes of order
Emit(node, path, order) ==
    IF order = <<>> THEN <<>>
    ELSE Compile(node.children[Head(order)], Append(path, Head(order)))
         \o Emit(node, path, Tail(order))

\* list(node): the __iter__ of the node's class
Compile(node, path) ==
    LET n == Len(node.children)
        \* self.name.value: a str, or the list the classifier was handed
        name == IF IsLeaf(node.children[1].children[1])
                THEN node.children[1].children[1].tok
                ELSE node.children[1].children[1]
    IN  CASE node.k = "Comment" -> <<Noop>>
          [] node.k = "Suite" -> Emit(node, path, Upto(1, n))
          [] node.k = "Set" ->
                Emit(node, path, <<2>>) \o <<PopVar(name), PushVar(name)>>
          [] node.k = "Setg" ->
                Emit(node, path, <<2>>) \o <<PopGlobalVar(name), PushGlobalVar(name)>>
          [] node.k = "Setc" ->
                Emit(node, path, <<2>>) \o <<PopClosureVar(name), PushClosureVar(name)>>
          [] node.k = "Ret" -> Emit(node, path, <<1>>) \o <<PopFunc>>
          [] node.k = "List" ->
                Emit(node, path, Downto(n, 1)) \o <<CallPyFunc("build", n)>>
          [] node.k = "Cons" -> Emit(node, path, <<2, 1>>) \o <<CallPyFunc("cons", 2)>>
          [] node.k = "Car" -> Emit(node, path, <<1>>) \o <<CallPyFunc("car", 1)>>
          [] node.k = "Cdr" -> Emit(node, path, <<1>>) \o <<CallPyFunc("cdr", 1)>>
          [] node.k = "Assert" ->
                Emit(node, path, <<2, 1>>) \o <<CallPyFunc("check_assert", 2)>>
          [] node.k \in BINOPS ->
                Emit(node, path, <<2, 1>>) \o <<CallPyFunc(node.k, 2)>>
          [] node.k \in UNOPS ->
                Emit(node, path, <<1>>) \o <<CallPyFunc(node.k, 1)>>
          [] node.k \in {e[2] : e \in pyfuncs} ->
                Emit(node, path, Downto(n, 1)) \o <<CallPyFunc(node.k, n)>>
          [] node.k = "Var" -> <<PushVar(node.children[1].tok)>>
          [] node.k = "Atom" -> <<PushImm(node.children[1])>>
          [] node.k \in {"Nil", "True_", "False_"} -> <<PushImm(ValueOf(node))>>
          [] node.k = "While" ->
                <<Label(LabelName("loop-start", path))>>
                \o Emit(node, path, <<1>>)
                \o <<JumpIfFalse(LabelName("loop-end", path))>>
                \o Emit(node, path, <<2>>)
                \o <<JumpAlways(LabelName("loop-start", path)),
                     Label(LabelName("loop-end", path))>>
          [] node.k = "IfElse" ->
                IF node.children[3].k # NoElse.k
                THEN Emit(node, path, <<1>>)
                     \o <<JumpIfFalse(LabelName("elsebody", path))>>
                     \o Emit(node, path, <<2>>)
                     \o <<JumpAlways(LabelName("end", path)),
                          Label(LabelName("elsebody", path))>>
                     \o Emit(node, path, <<3>>)
                     \o <<Label(LabelName("end", path))>>
                ELSE Emit(node, path, <<1>>)
                     \o <<JumpIfFalse(LabelName("end", path))>>
                     \o Emit(node, path, <<2>>)
                     \o <<Label(LabelName("end", path))>>
          [] node.k = "Call" -> Emit(node, path, Downto(n, 2)) \o <<PushFunc(name)>>
          [] node.k = "TailCall" ->
                Emit(node, path, Downto(n, 2)) \o <<PushTailFunc(name)>>
          [] node.k = "Lambda" ->
                <<CreateFunc(node.children[1].children, node.children[2])>>
          [] node.k = "Read" -> <<ReadInput>>
          [] node.k = "Parse" -> Emit(node, path, <<1>>) \o <<CallPyFunc("parse", 1)>>
          [] node.k = "Eval" -> Emit(node, path, <<1>>) \o <<Evaluate_>>
          [] OTHER -> <<Missing_(node)>>

-----------------------------------------------------------------------------
(* The external stack executor, from the opcode contract: vm holds the     *)
(* code, the index pc of the next opcode, the stack (top first), the       *)
(* bindings env and, once it failed, the error err. The values on the      *)
(* stack are raw values. At top level there is one frame, as the evaluator *)
(* has one dict there: the local and the global opcodes both address it.   *)
(* A native operation gets the operands in the order they are popped, the  *)
(* order that undoes the reversed emission of every __iter__. Of the       *)
(* opcodes only those of function-free programs are executed.              *)

Loaded(code) ==
    [on |-> TRUE, code |-> code, pc |-> 1, stack |-> <<>>, env |-> <<>>,
     err |-> ""]

VmAt(opcodes) ==
    /\ vm.on
    /\ vm.err = ""
    /\ vm.pc <= Len(vm.code)
    /\ vm.code[vm.pc].op \in opcodes

Halted == vm.on /\ (vm.err # "" \/ vm.pc > Len(vm.code))

Inst == vm.code[vm.pc]

Fail(exc) == vm' = [vm EXCEPT !.err = exc]

LabelIndex(name) == CHOOSE i \in 1..Len(vm.code) : vm.code[i] = Label(name)

\* The chain List.build makes (lines 278-284)
RECURSIVE build(_)
build(vals) ==
    IF Len(vals) = 1 THEN Tuple(vals[1], None)
    ELSE Tuple(Head(vals), build(Tail(vals)))

\* func(*args) for the functions the compiler hands to CallPyFunc
ApplyPyFunc(func, args) ==
    CASE func \in BINOPS -> ApplyBinop(func, args[1], args[2])
      [] func \in UNOPS -> ApplyUnop(func, args[1])
      [] func = "build" -> build(args)
      [] func = "cons" -> Tuple(args[1], args[2])
      [] func \in {"car", "cdr"} ->
            IF TypeOf(args[1]) # "tuple" THEN Raise("TypeError")
            ELSE IF func = "car" THEN args[1].a ELSE args[1].b

VmQuiet == UNCHANGED <<tree, asts, scoping, heap, ctl, kont, depth, nstmt>>

\* Label(name), Noop(): no stack effect
VmLabel ==
    /\ VmAt({"Label", "Noop"})
    /\ vm' = [vm EXCEPT !.pc = @ + 1]
    /\ VmQuiet

\* PushImm(value)
VmPushImm ==
    /\ VmAt({"PushImm"})
    /\ vm' = [vm EXCEPT !.stack = <<Inst.value>> \o @, !.pc = @ + 1]
    /\ VmQuiet

\* PushVar(name), PushGlobalVar(name): read a binding
VmPushVar ==
    /\ VmAt({"PushVar", "PushGlobalVar"})
    /\ IF Inst.name \in DOMAIN vm.env
       THEN vm' = [vm EXCEPT !.stack = <<vm.env[Inst.name]>> \o @, !.pc = @ + 1]
       ELSE Fail("ProgramError")
    /\ VmQuiet

\* PopVar(name), PopGlobalVar(name): write a binding
VmPopVar ==
    /\ VmAt({"PopVar", "PopGlobalVar"})
    /\ IF vm.stack = <<>> THEN Fail("EmptyStack")
       ELSE vm' = [vm EXCEPT !.env = (Inst.name :> Head(vm.stack)) @@ @,
                             !.stack = Tail(@), !.pc = @ + 1]
    /\ VmQuiet

\* JumpIfFalse(label): pops the condition
VmJumpIfFalse ==
    /\ VmAt({"JumpIfFalse"})
    /\ IF vm.stack = <<>> THEN Fail("EmptyStack")
       ELSE vm' = [vm EXCEPT !.stack = Tail(@),
                             !.pc = IF Truthy(Head(vm.stack)) THEN @ + 1
                                    ELSE LabelIndex(Inst.name)]
    /\ VmQuiet

\* JumpAlways(label)
VmJumpAlways ==
    /\ VmAt({"JumpAlways"})
    /\ vm' = [vm EXCEPT !.pc = LabelIndex(Inst.name)]
    /\ VmQuiet

\* CallPyFunc(func, n): pops n operands, pushes func of them
VmCallPyFunc ==
    /\ VmAt({"CallPyFunc"})
    /\ IF Len(vm.stack) < Inst.n THEN Fail("EmptyStack")
       ELSE LET r == ApplyPyFunc(Inst.func, SubSeq(vm.stack, 1, Inst.n))
            IN  IF IsRaise(r) THEN Fail(r.exc)
                ELSE vm' = [vm EXCEPT
                              !.stack = <<r>> \o SubSeq(@, Inst.n + 1, Len(@)),
                              !.pc = @ + 1]
    /\ VmQuiet

-----------------------------------------------------------------------------
(* Both modes on one program: a function-free program is classified, the   *)
(* node is evaluated in an empty dict and, when that returned, its opcodes *)
(* are run by the executor.                                                *)

Less(a, b) == L3(Leaf(<<"<">>), a, b)
Plus(a, b) == L3(Leaf(<<"+">>), a, b)
Minus(a, b) == L3(Leaf(<<"-">>), a, b)
SetX(v) == L3(Leaf(tSet), nX, v)

Programs ==
    Nums
    \cup { Leaf(tNil), Leaf(tTrue), Lst(<<>>) }
    \cup { Plus(a, b) : a, b \in Nums }
    \cup { Minus(a, b) : a, b \in Nums }
    \cup { L2(Leaf(<<"-">>), a) : a \in Nums }
    \cup { SetX(a) : a \in Nums }
    \cup { L3(Leaf(tSetg), nG, a) : a \in Nums }
    \cup { L2(SetX(a), Minus(nX, b)) : a, b \in Nums }
    \cup { Plus(SetX(a), SetX(b)) : a, b \in Nums }
    \cup { L2(SetX(a), Minus(SetX(b), nX)) : a, b \in Nums }
    \cup { L3(Leaf(tWhile), Less(a, NumTok(0)), b) : a, b \in Nums }
    \cup { L3(Leaf(tIf), Less(a, NumTok(1)), b) : a, b \in Nums }
    \cup { L4(Leaf(tIf), Less(a, NumTok(1)), b, Leaf(tNil)) : a, b \in Nums }
    \cup { L2(L3(Leaf(tSet), nW, NumTok(0)),
              L3(Leaf(tWhile), Less(nW, a),
                 L3(Leaf(tSet), nW, Plus(nW, NumTok(1))))) : a \in Nums }
    \cup { L2(SetX(a), L3(Leaf(tWhile), Less(nX, NumTok(0)), nX)) : a \in Nums }
    \cup { L3(Leaf(tCons), a, Leaf(tNil)) : a \in Nums }
    \cup { L2(h, L3(Leaf(tCons), a, b)) : h \in {Leaf(tCar), Leaf(tCdr)},
                                          a, b \in Nums }
    \cup { L3(Leaf(tList), a, b) : a, b \in Nums }

InitDual ==
    /\ tree \in Programs
    /\ asts = <<>>
    /\ scoping = "LEXICAL"
    /\ heap = << <<>> >>
    /\ ctl = Idle
    /\ kont = <<>>
    /\ depth = 0
    /\ nstmt = 0
    /\ vm = VmOff

\* Node.parse(tree)(env) with env = {}
Interpret ==
    /\ ctl = Idle
    /\ ~IsRaise(Parse(tree))
    /\ asts' = <<Parse(tree)>>
    /\ ctl' = CallOf(Parse(tree), GlobalEnv)
    /\ nstmt' = 1
    /\ UNCHANGED <<tree, scoping, heap, kont, depth, vm>>

\* The executor is handed list(node)
Execute ==
    /\ Returned
    /\ ~vm.on
    /\ vm' = Loaded(Compile(asts[1], <<>>))
    /\ VmQuiet

NextDual ==
    \/ Interpret
    \/ AtomCall \/ SingletonCall \/ VarCall \/ SuiteCall \/ SetCall \/ SetgCall
    \/ ListCall \/ ConsCall \/ CarCall \/ CdrCall
    \/ BinopCall \/ UnopCall \/ WhileCall \/ IfElseCall
    \/ Execute
    \/ VmLabel \/ VmPushImm \/ VmPushVar \/ VmPopVar
    \/ VmJumpIfFalse \/ VmJumpAlways \/ VmCallPyFunc

SpecDual == InitDual /\ [][NextDual]_vars

-----------------------------------------------------------------------------
(* The compiler on its own: a program of nested loops and conditionals is  *)
(* classified and the node is iterated, list(Node.parse(tree)); vm holds   *)
(* the opcodes, which nothing runs here.                                   *)

MaxNest == 2

Cond == Less(nX, NumTok(1))
Loop(c, body) == L3(Leaf(tWhile), c, body)
If(c, a) == L3(Leaf(tIf), c, a)
IfEl(c, a, b) == L4(Leaf(tIf), c, a, b)

\* Conditions: a comparison, and a conditional and a loop in that place.
Conds == { Cond, IfEl(Cond, nX, nY), Loop(Cond, nX) }

\* What stands next to a nested program: a second branch, a following
\* statement.
Sides == { nX, SetX(NumTok(1)), Loop(Cond, nX), If(Cond, nY) }

\* The programs of nesting depth up to d: a name and a binding at depth 0;
\* a loop or a conditional around a program one level down, a conditional
\* with a second branch, and a sequence of two statements.
RECURSIVE Nested(_)
Nested(d) ==
    IF d = 0 THEN { nX, SetX(NumTok(1)) }
    ELSE LET in == Nested(d - 1)
         IN  in
             \cup { Loop(c, a) : c \in Conds, a \in in }
             \cup { If(c, a) : c \in Conds, a \in in }
             \cup { IfEl(Cond, a, b) : a \in in, b \in Sides }
             \cup { L2(a, b) : a \in { t \in in : IsList(t) },
                               b \in { t \in Sides : IsList(t) } }

InitCompile ==
    /\ tree \in Nested(MaxNest)
    /\ asts = <<>>
    /\ scoping = "LEXICAL"
    /\ heap = <<>>
    /\ ctl = Off
    /\ kont = <<>>
    /\ depth = 0
    /\ nstmt = 0
    /\ vm = VmOff

\* list(Node.parse(tree))
Translate ==
    /\ ctl = Off
    /\ Len(asts) < MaxParses
    /\ LET r == ParseR(tree)
       IN  /\ ~IsRaise(r.node)
           /\ asts' = Append(asts, r.node)
           /\ tree' = r.tree
           /\ vm' = Loaded(Compile(r.node, <<>>))
    /\ UNCHANGED <<scoping, heap, ctl, kont, depth, nstmt>>

NextCompile == Translate

SpecCompile == InitCompile /\ [][NextCompile]_vars

-----------------------------------------------------------------------------
(* Claims about the classifier, checked under SpecParse.                   *)

IsQuoted(s) == StartsWith(s, "\"") /\ EndsWith(s, "\"")

\* C8: a leaf token equal to nil, true or false classifies to the singleton
\* Nil, True_ or False_ node (rule 3), and a variable-reference node comes
\* only from a leaf that matches none of rules 1-3.
C8_LeafPriority ==
    (IsLeaf(tree) /\ asts # <<>>) =>
        /\ (tree.tok = tNil => asts[1] = Nil)
        /\ (tree.tok = tTrue => asts[1] = True_)
        /\ (tree.tok = tFalse => asts[1] = False_)
        /\ (asts[1].k = "Var" =>
               /\ ~NUM_RE(tree.tok)
               /\ ~IsQuoted(tree.tok)
               /\ tree.tok \notin {tNil, tTrue, tFalse})

\* A list that none of rules 5-14 matches: its head is a list, and not
\* every element is one.
Unmatched(t) ==
    /\ IsList(t)
    /\ t.kids # <<>>
    /\ IsList(t.kids[1])
    /\ \E i \in 1..Len(t.kids) : IsLeaf(t.kids[i])

\* C9: Node.parse does not raise on a list that matches none of rules
\* 5-14: it returns the unclassified marker node NotImplemented wrapping
\* the list.
C9_UnclassifiedMarker ==
    (Unmatched(tree) /\ asts # <<>>) =>
        asts[1] = Node("NotImplemented", <<tree>>)

\* C10: for every operator token and every operand count the arity table
\* lists for it, Node.parse returns that entry's operator node with exactly
\* that many operand children (the operands themselves classify).
C10_ArityDispatch ==
    \A e \in ops :
        ( /\ IsList(tree)
          /\ asts # <<>>
          /\ Len(tree.kids) = e[2] + 1
          /\ HeadIs(tree.kids[1], e[1])
          /\ \A i \in 2..Len(tree.kids) : ~IsRaise(Parse(tree.kids[i])) )
        => (asts[1].k = e[3] /\ Len(asts[1].children) = e[2])

-----------------------------------------------------------------------------
(* Claims about the evaluator, checked under SpecEval.                     *)

\* The name a binding form or a Var is about.
BoundName(node) ==
    IF node.k = "Var" THEN node.children[1].tok ELSE node.children[1].children[1].tok

\* A binding form is about to bind, inside a lambda body: its value has
\* been evaluated and returns to it, and its env is an invocation's.
Binds(cls) ==
    /\ Resuming({cls})
    /\ IsChainMap(Head(kont).env)
    /\ Hashable(Head(kont).node.children[1].children[1])

Binding(h, i, name) ==
    IF name \in DOMAIN h[i] THEN h[i][name] ELSE Missing

OnlyFrameChanged(i) ==
    /\ Len(heap') = Len(heap)
    /\ \A j \in 1..Len(heap) : j # i => heap'[j] = heap[j]

\* C2: setg inside a lambda body binds the name in the global frame and
\* leaves every other frame as it was, at any nesting depth and under both
\* scoping modes.
C2_SetgGlobalOnly ==
    [][ Binds("Setg") =>
          /\ OnlyFrameChanged(1)
          /\ Binding(heap', 1, BoundName(Head(kont).node)) = ctl.val ]_vars

\* C3: setc inside a closure invocation writes neither the invocation's
\* local frame nor the global frame, whatever frames the closure captured.
C3_SetcCapturedOnly ==
    [][ Binds("Setc") =>
          /\ heap'[1] = heap[1]
          /\ heap'[Head(kont).env.maps[1].id] = heap[Head(kont).env.maps[1].id] ]_vars

\* C7: car or cdr of a value that is not a pair cell fails with
\* ProgramError, and with no other kind of error.
C7_ProjectionError ==
    [][ (Resuming({"Car", "Cdr"}) /\ ctl.val.k # "Cell") =>
          (ctl'.tag = "raise" /\ ctl'.exc = "ProgramError") ]_vars

Range(s) == { s[i] : i \in DOMAIN s }
Ids(dicts) == [i \in DOMAIN dicts |-> dicts[i].id]

\* The dicts of an environment, a ChainMap's maps flattened in order.
RECURSIVE Frames(_), FramesOf(_)
Frames(env) == IF IsChainMap(env) THEN FramesOf(env.maps) ELSE <<env.id>>
FramesOf(maps) ==
    IF maps = <<>> THEN <<>> ELSE Frames(Head(maps)) \o FramesOf(Tail(maps))

\* The binding of name in the first of the frames ids that has one.
FirstBound(ids, name, h) ==
    IF \E i \in 1..Len(ids) : name \in DOMAIN h[ids[i]]
    THEN h[ids[CHOOSE i \in 1..Len(ids) :
                 /\ name \in DOMAIN h[ids[i]]
                 /\ \A j \in 1..(i - 1) : name \notin DOMAIN h[ids[j]]]][name]
    ELSE Missing

\* The innermost closure invocation in progress among the activations k:
\* its Ufunc activation holds the closure (node.cls) and the call-site
\* environment (env).
FirstUfunc(k) ==
    CHOOSE i \in 1..Len(k) :
        k[i].node.k = "Ufunc" /\ \A j \in 1..(i - 1) : k[j].node.k # "Ufunc"
Invocation == kont[FirstUfunc(kont)]

\* The local frame of the invocation a binding form is evaluated in.
LocalFrame == Head(kont).env.maps[1].id

\* No two invocations in progress have the same local frame.
DistinctLocals ==
    \A i, j \in 2..Len(kont) :
        (i # j /\ kont[i].node.k = "Ufunc" /\ kont[j].node.k = "Ufunc")
            => kont[i - 1].env.maps[1] # kont[j - 1].env.maps[1]

\* C4: set inside a lambda body binds the name in the local frame created
\* for that invocation and changes no other frame: the local frame is not
\* the global frame, not a captured frame and not a frame of any caller;
\* every invocation gets a new frame, which no other invocation has.
C4_SetLocalOnly ==
    /\ [][ /\ Binds("Set") =>
                /\ OnlyFrameChanged(LocalFrame)
                /\ Binding(heap', LocalFrame, BoundName(Head(kont).node)) = ctl.val
                /\ LocalFrame # 1
                /\ LocalFrame \notin Range(Tail(Frames(Head(kont).env)))
                /\ \A i \in 1..Len(kont) :
                      kont[i].env # Head(kont).env
                          => LocalFrame \notin Range(Frames(kont[i].env))
           /\ (Calling({"Ufunc"}) /\ ctl'.tag = "call") =>
                /\ ctl'.env.maps[1].id \notin 1..Len(heap)
                /\ ctl'.env.maps[1].id = Len(heap')
                /\ \A j \in 1..Len(heap) : heap'[j] = heap[j] ]_vars
    /\ [] DistinctLocals

\* (rec 2) has returned: two of its invocations each bound x to their own n
\* in a local frame of their own, and the global frame still binds x to 9.
C4_Witness ==
    /\ Returned
    /\ Binding(heap, 1, tX) = Atom(Num(9, 0))
    /\ \E i, j \in 2..Len(heap) :
          /\ i # j
          /\ {<<"n">>, tX} \subseteq DOMAIN heap[i]
          /\ {<<"n">>, tX} \subseteq DOMAIN heap[j]
          /\ heap[i][tX] = heap[i][<<"n">>]
          /\ heap[j][tX] = heap[j][<<"n">>]
          /\ heap[i][tX] # heap[j][tX]

\* The current step looks a name up: env[self.name] of Var.__call__, or
\* env[self.name.value] of Call.__call__ once its arguments are evaluated.
LooksUp ==
    \/ Calling({"Var"})
    \/ /\ Running({"Call", "TailCall"})
       /\ CurSt # "node"
       /\ Len(CurAcc) = Len(CurNode.children) - 1
       /\ Hashable(CurNode.children[1].children[1])

\* What the lookup of the current step found, read from what the step does
\* with it: a failed lookup raises, a closure class is instantiated, any
\* other value is evaluated.
Found ==
    IF ctl'.tag = "raise" THEN Missing
    ELSE IF ctl'.tag = "ret" THEN ctl'.val.cls
    ELSE IF ctl'.node.k = "Ufunc" THEN ctl'.node.cls
    ELSE ctl'.node

\* C5: a lambda evaluated inside an invocation captures the frames that
\* enclose it there (that invocation's local frame, then the frames its own
\* closure captured); a name that is free in an invocation (not a
\* parameter) resolves in the frames captured at definition, whatever the
\* call site binds; failing that it resolves, under lexical scoping, in the
\* global frame and, under dynamic scoping, through the call-site
\* environment.
C5_ClosureCapture ==
    [][ /\ (Calling({"Lambda"}) /\ IsChainMap(ctl.env)) =>
              ctl'.val.closures =
                  <<ctl.env.maps[1]>> \o Invocation.node.cls.closures
        /\ (Calling({"Lambda"}) /\ ~IsChainMap(ctl.env)) =>
              ctl'.val.closures = <<>>
        /\ ( /\ Calling({"Var"})
             /\ IsChainMap(ctl.env)
             /\ BoundName(ctl.node) \notin DOMAIN heap[ctl.env.maps[1].id] ) =>
              LET name == BoundName(ctl.node)
                  captured == FirstBound(Ids(Invocation.node.cls.closures), name, heap)
              IN  IF captured # Missing THEN Found = captured
                  ELSE IF scoping = "LEXICAL" THEN Found = Binding(heap, 1, name)
                  ELSE Found = GetItem(Invocation.env, name, heap) ]_vars

\* Lexical scoping: an invocation of the closure (mkrd a) made, after mkrd
\* returned, from inside callr, whose local frame binds x to something
\* else, has resolved x to the a of the captured frame.
C5_Witness ==
    /\ scoping = "LEXICAL"
    /\ Resuming({"Var"})
    /\ Head(kont).node = Var(nX)
    /\ IsChainMap(Head(kont).env)
    /\ Invocation.node.cls.closures # <<>>
    /\ IsChainMap(Invocation.env)
    /\ tX \in DOMAIN heap[Invocation.env.maps[1].id]
    /\ ctl.val = heap[Invocation.node.cls.closures[1].id][tX]
    /\ ctl.val # heap[Invocation.env.maps[1].id][tX]
    /\ ctl.val # heap[1][tX]

\* The frames the spec names for a lookup: at top level the global frame;
\* in an invocation its local frame, the frames its closure captured, and
\* the global frame.
ClaimedOrder ==
    IF IsChainMap(CurEnv)
    THEN <<CurEnv.maps[1].id>> \o Ids(Invocation.node.cls.closures) \o <<1>>
    ELSE <<1>>

RECURSIVE SearchOrder(_, _)
SearchOrder(env, k) ==
    IF ~IsChainMap(env) THEN <<env.id>>
    ELSE LET u == k[FirstUfunc(k)]
         IN  <<env.maps[1].id>> \o Ids(u.node.cls.closures)
             \o (IF scoping = "LEXICAL" THEN <<1>>
                 ELSE SearchOrder(u.env, SubSeq(k, FirstUfunc(k) + 1, Len(k))))

-----------------------------------------------------------------------------
(* The claim about the two modes, checked under SpecDual.                  *)

\* C1: when the evaluator returned a value for a program and the executor
\* has run the program's opcodes to the end, the executor did not fail, the
\* top of its stack is the value the evaluator returned (unwrapped), and
\* the two hold the same bindings.
C1_DualModeEquivalence ==
    (Returned /\ Halted) =>
        /\ vm.err = ""
        /\ vm.stack # <<>>
        /\ Head(vm.stack) = ValueOf(ctl.val)
        /\ DOMAIN vm.env = DOMAIN heap[1]
        /\ \A name \in DOMAIN vm.env : vm.env[name] = ValueOf(heap[1][name])

-----------------------------------------------------------------------------
(* The claim about the opcode stream, checked under SpecCompile.           *)

\* The node at the place path of the tree of node
RECURSIVE NodeAt(_, _)
NodeAt(node, path) ==
    IF path = <<>> THEN node ELSE NodeAt(node.children[Head(path)], Tail(path))

Stream == vm.code
IsJump(o) == o.op \in {"JumpIfFalse", "JumpAlways"}

\* The opcodes a While at the place path of the compiled node is to emit
LoopShape(path) ==
    LET node == NodeAt(asts[Len(asts)], path)
    IN  <<Label(LabelName("loop-start", path))>>
        \o Compile(node.children[1], Append(path, 1))
        \o <<JumpIfFalse(LabelName("loop-end", path))>>
        \o Compile(node.children[2], Append(path, 2))
        \o <<JumpAlways(LabelName("loop-start", path)),
             Label(LabelName("loop-end", path))>>

\* C11: in the opcode sequence of a classified program no two Label opcodes
\* introduce the same name, every JumpIfFalse and JumpAlways names a Label
\* of the sequence, and from the start label of a while the sequence goes
\* on with the condition's opcodes, JumpIfFalse to the end label, the body's
\* opcodes, JumpAlways to the start label and the end label.
C11_LabelsWellFormed ==
    vm.on =>
        /\ \A i, j \in DOMAIN Stream :
              (Stream[i].op = "Label" /\ Stream[j] = Stream[i]) => i = j
        /\ \A i \in DOMAIN Stream :
              IsJump(Stream[i]) =>
                  \E j \in DOMAIN Stream : Stream[j] = Label(Stream[i].name)
        /\ \A i \in DOMAIN Stream :
              (Stream[i].op = "Label" /\ Stream[i].name.prefix = "loop-start") =>
                  LET shape == LoopShape(Stream[i].name.id)
                  IN  /\ i + Len(shape) - 1 <= Len(Stream)
                      /\ SubSeq(Stream, i, i + Len(shape) - 1) = shape

\* A loop in the body of a loop has been compiled, in a program with a
\* two-branch conditional: the inner loop's labels carry a place below the
\* outer loop's, and the sequence has an elsebody label.
C11_Witness ==
    /\ vm.on
    /\ \E i \in DOMAIN Stream :
          Stream[i].op = "Label" /\ Stream[i].name.prefix = "elsebody"
    /\ \E i, j \in DOMAIN Stream :
          /\ i < j
          /\ Stream[i].op = "Label" /\ Stream[i].name.prefix = "loop-start"
          /\ Stream[j].op = "Label" /\ Stream[j].name.prefix = "loop-start"
          /\ Len(Stream[j].name.id) > Len(Stream[i].name.id)
          /\ SubSeq(Stream[j].name.id, 1, Len(Stream[i].name.id) + 1)
                = Append(Stream[i].name.id, 2)

-----------------------------------------------------------------------------
(* The claim about the call-depth counter, checked under SpecEval.         *)

\* C12: depth is the number of node evaluations in progress, and once the
\* evaluation of a statement has ended, with a value or with an exception,
\* depth is what it was before any statement was evaluated.
C12_DepthRestored ==
    /\ depth = Len(kont)
    /\ AtRest => depth = 0

-----------------------------------------------------------------------------
(* The claim about the classifier's input, checked under SpecParse.        *)

\* C13: Node.parse leaves the token tree it is handed as it was, every
\* classification of the same tree gives the same result, and a tree that
\* classified to a TailCall node classifies to one again.
C13_ParseLeavesTree ==
    /\ [][ Len(asts') > Len(asts) => tree' = tree ]_vars
    /\ [] (\A i, j \in DOMAIN asts : asts[i] = asts[j])
    /\ [] (\A i, j \in DOMAIN asts :
              asts[i].k = "TailCall" => asts[j].k = "TailCall")

====
